---- MODULE Spec2Model ----
(***************************************************************************)
(* Users-API: cookie-borne JWT sessions (AuthGuard, setTokens), the user   *)
(* operations of UsersService against the Prisma record store, and the     *)
(* audit trail (log line + "notification" broadcast) of each operation.    *)
(*                                                                         *)
(* Every client has at most one request in flight; the requests of         *)
(* different clients interleave at the await points of the handlers.       *)
(* Time is counted in minutes.                                             *)
(***************************************************************************)
EXTENDS Integers, FiniteSets, Sequences, TLC

\* ---------------------------------------------------------------- bounds
MaxUsers == 2         \* ids the record store hands out
MaxRequests == 3      \* requests received in one behaviour
MaxTime == 20         \* last minute of the clock
TickMinutes == 5      \* minutes between two observations of the clock

\* ------------------------------------------------------------- constants
AccessTTL == 15       \* signOptions: { expiresIn: '15m' }
RefreshTTL == 10080   \* "a longer horizon" for the refresh token (7 days)

Clients == {1, 2}      \* two clients, each with at most one request in flight
Ids == 1..MaxUsers
Null == "null"
Secret == "JWT_SECRET"

Emails == {"a@x.com", "b@x.com"}
Passwords == {"Pw1!", "Pw2!"}

\* Bodies of POST /users/register (RegisterDto; an absent optional field is Null)
RegisterInputs ==
  { [email |-> "a@x.com", password |-> "Pw1!", first_name |-> "Ann", last_name |-> Null],
    [email |-> "b@x.com", password |-> "Pw2!", first_name |-> Null, last_name |-> "Lee"] }

\* Bodies of POST /users/login (LoginDto)
LoginInputs == [email : Emails, password : Passwords]

\* Bodies of PATCH /users/:id (UpdateUserDto; an absent optional field is Null)
UpdateInputs ==
  { [email |-> "b@x.com", first_name |-> Null, last_name |-> Null],
    [email |-> Null, first_name |-> "Bob", last_name |-> Null] }

VARIABLES users, nextId, now, issued, jar, req, started

vars == <<users, nextId, now, issued, jar, req, started>>

\* ------------------------------------------------------ password hashing
\* bcrypt.hash(password, 10)
Hash(password) == <<"bcrypt", password>>

\* bcrypt.compare(password, user.password)
Compare(password, hashed) == hashed = Hash(password)

\* ---------------------------------------------------------------- tokens
NoToken == [sig |-> "none"]
NoUser == [id |-> 0]
NoDto == [none |-> TRUE]
NoResponse == [status |-> 0]

\* JwtPayload: the identity carried by a token
IdentityOf(user) ==
  [id |-> user.id, email |-> user.email,
   first_name |-> user.first_name, last_name |-> user.last_name]

\* jwtService.sign(payload, { expiresIn }) at minute t
Sign(identity, t, ttl) ==
  [payload |-> [id |-> identity.id, email |-> identity.email,
                first_name |-> identity.first_name, last_name |-> identity.last_name,
                iat |-> t, exp |-> t + ttl],
   sig |-> Secret]

\* A token that was not signed with the process secret
ForgedToken ==
  [payload |-> [id |-> 1, email |-> "a@x.com", first_name |-> Null, last_name |-> Null,
                iat |-> 0, exp |-> MaxTime + AccessTTL + 2],
   sig |-> "OTHER_SECRET"]

\* setTokens(user, res, jwtService): the two cookies written on the response
setTokens(user, t) ==
  [access_token |-> Sign(IdentityOf(user), t, AccessTTL),
   refresh_token |-> Sign(IdentityOf(user), t, RefreshTTL)]

NoCookies == [access_token |-> NoToken, refresh_token |-> NoToken]

\* A verification that skips the exp check (ignoreExpiration: true)
verifyIgnoringExpiration(token, t) ==
  IF token.sig # Secret THEN [ok |-> FALSE, error |-> "invalid signature"]
  ELSE [ok |-> TRUE, payload |-> token.payload]

\* jwtService.verifyAsync(token) at minute t: the payload, or the failure
verifyAsync(token, t) ==
  IF token.sig # Secret THEN [ok |-> FALSE, error |-> "invalid signature"]
  ELSE IF t >= token.payload.exp THEN [ok |-> FALSE, error |-> "jwt expired"]
  ELSE [ok |-> TRUE, payload |-> token.payload]

\* AuthGuard.canActivate on a request with this access_token cookie at minute t
canActivateResult(token, t) ==
  IF token = NoToken
    THEN [ok |-> FALSE, status |-> 401, message |-> "Access token not found"]
    ELSE IF verifyAsync(token, t).ok
      THEN [ok |-> TRUE, user |-> verifyAsync(token, t).payload]
      ELSE [ok |-> FALSE, status |-> 401, message |-> "Invalid or expired token"]

\* ------------------------------------------------------------- responses
\* What the client sees: HTTP status, message, and the user records in the body
Response(status, message, body) ==
  [status |-> status, message |-> message, body |-> body]

\* const { password, ...userWithoutPassword } = user
WithoutPassword(user) == IdentityOf(user)

\* ---------------------------------------------------------- record store
\* prisma.user.findUnique({ where: { id } })
findById(store, id) ==
  IF \E u \in store : u.id = id THEN CHOOSE u \in store : u.id = id ELSE NoUser

\* prisma.user.findUnique({ where: { email } })
findByEmail(store, email) ==
  IF \E u \in store : u.email = email
    THEN CHOOSE u \in store : u.email = email ELSE NoUser

\* prisma.user.create({ data }): the unique index on email answers P2002
create(store, id, data, dbDown) ==
  IF dbDown THEN [error |-> "P1001", store |-> store, user |-> NoUser]
  ELSE IF \E u \in store : u.email = data.email
    THEN [error |-> "P2002", store |-> store, user |-> NoUser]
    ELSE LET u == [id |-> id, email |-> data.email, password |-> data.password,
                   first_name |-> data.first_name, last_name |-> data.last_name]
         IN [error |-> "none", store |-> store \cup {u}, user |-> u]

\* The record with the fields the dto carries replaced
Patched(u, dto) ==
  [u EXCEPT !.email = IF dto.email = Null THEN @ ELSE dto.email,
            !.first_name = IF dto.first_name = Null THEN @ ELSE dto.first_name,
            !.last_name = IF dto.last_name = Null THEN @ ELSE dto.last_name]

\* prisma.user.update({ where: { id }, data }): P2025 when the record is absent
update(store, id, dto, dbDown) ==
  IF dbDown THEN [error |-> "P1001", store |-> store, user |-> NoUser]
  ELSE IF findById(store, id) = NoUser
    THEN [error |-> "P2025", store |-> store, user |-> NoUser]
  ELSE IF dto.email # Null /\ \E u \in store : u.id # id /\ u.email = dto.email
    THEN [error |-> "P2002", store |-> store, user |-> NoUser]
    ELSE LET old == findById(store, id)
             u == Patched(old, dto)
         IN [error |-> "none", store |-> (store \ {old}) \cup {u}, user |-> u]

\* prisma.user.delete({ where: { id } }): P2025 when the record is absent
delete(store, id, dbDown) ==
  IF dbDown THEN [error |-> "P1001", store |-> store, user |-> NoUser]
  ELSE IF findById(store, id) = NoUser
    THEN [error |-> "P2025", store |-> store, user |-> NoUser]
    ELSE [error |-> "none", store |-> store \ {findById(store, id)},
          user |-> findById(store, id)]

\* ------------------------------------------------------------ audit trail
\* LogNotifyHelper.logOperation(message): one line handed to the logger and one
\* "notification" broadcast, naming the actor the message was built with; a
\* failing sink is contained, never thrown.
logOperation(r, actor, sinkFails) ==
  [r EXCEPT !.logLines = @ + 1, !.broadcasts = @ + 1, !.actor = actor,
            !.auditFailed = @ \/ sinkFails]

\* this.logger.info(message): one line handed to the logger, no broadcast
loggerInfo(r, actor) == [r EXCEPT !.logLines = @ + 1, !.actor = actor]

\* ------------------------------------------------------- request records
SetNone == [kind |-> "none"]
SetCleared == [kind |-> "cleared"]
SetTokens(pair) ==
  [kind |-> "set", access_token |-> pair.access_token,
   refresh_token |-> pair.refresh_token]

Idle ==
  [pc |-> "idle", op |-> Null, cookie |-> NoToken, id |-> 0, dto |-> NoDto,
   user |-> NoUser, guard |-> "none", handler |-> FALSE,
   found |-> NoUser, hashed |-> <<>>,
   error |-> "none", res |-> NoResponse, setCookie |-> SetNone,
   logLines |-> 0, broadcasts |-> 0, actor |-> Null,
   auditFailed |-> FALSE, committed |-> FALSE]

GuardedOps == {"getProfile", "updateUser", "deleteUser", "getAllUsers"}

\* throw new HttpException(message, status)
Fail(r, status, message) ==
  [r EXCEPT !.pc = "done", !.res = Response(status, message, {})]

\* catch (error) { throw new HttpException({ message: error.message }, BAD_REQUEST) }
\* for an error thrown by the Prisma client
Caught(r, status, error) ==
  [r EXCEPT !.pc = "done", !.error = error, !.res = Response(status, error, {})]

Succeed(r, status, message, body) ==
  [r EXCEPT !.pc = "done", !.res = Response(status, message, body)]

Init ==
  /\ users = {}
  /\ nextId = 1
  /\ now = 0
  /\ issued = {}
  /\ jar = [c \in Clients |-> NoCookies]
  /\ req = [c \in Clients |-> Idle]
  /\ started = 0

\* ---------------------------------------------------------------- routing
\* The access_token cookie a client may present: its own, none, a forged
\* one, or any token issued earlier (cookies are bearer credentials)
Presentable(c) == {jar[c].access_token, NoToken, ForgedToken} \cup issued

\* A request as it reaches a route of UsersController
Arrived(op, cookie, id, dto) ==
  [Idle EXCEPT !.op = op, !.cookie = cookie, !.id = id, !.dto = dto, !.pc = op]

\* A guard that also looks the token's user up in the record store
canActivateFresh(r, t) ==
  LET g == canActivateResult(r.cookie, t) IN
    IF g.ok /\ IdentityOf(findById(users, g.user.id)) = IdentityOf(g.user)
      THEN [r EXCEPT !.user = g.user, !.guard = "accepted", !.handler = TRUE]
      ELSE [Fail(r, 401, "Invalid or expired token") EXCEPT !.guard = "denied"]

\* A guard that attaches the payload of any presented token, verified or not
canActivateUnverified(r, t) ==
  IF r.cookie = NoToken
    THEN [Fail(r, 401, "Access token not found") EXCEPT !.guard = "denied"]
    ELSE [r EXCEPT !.user = r.cookie.payload, !.guard = "accepted", !.handler = TRUE]

\* @UseGuards(AuthGuard): the request after AuthGuard.canActivate at minute t
canActivate(r, t) ==
  LET g == canActivateResult(r.cookie, t) IN
    IF g.ok
      THEN [r EXCEPT !.user = g.user, !.guard = "accepted", !.handler = TRUE]
      ELSE [Fail(r, g.status, g.message) EXCEPT !.guard = "denied"]

\* An unguarded route (login, register, logout): the handler is entered
Unguarded(r) == [r EXCEPT !.handler = TRUE]

\* A request is received and routed
Receive(c, r) ==
  /\ req[c].pc = "idle"
  /\ started < MaxRequests
  /\ started' = started + 1
  /\ req' = [req EXCEPT ![c] = r]
  /\ UNCHANGED <<users, nextId, now, issued, jar>>

\* ------------------------------------------------- UsersService handlers
\* listAllUsers after findMany answered
listAllUsersDone(r, store, dbDown, sinkFails) ==
  IF dbDown THEN Caught(r, 400, "P1001")
  ELSE Succeed(logOperation([r EXCEPT !.committed = TRUE], r.user.email, sinkFails),
               200, "", store)

listAllUsers(c) ==
  /\ req[c].pc = "getAllUsers"
  /\ \E dbDown, sinkFails \in BOOLEAN :
       req' = [req EXCEPT ![c] = listAllUsersDone(@, users, dbDown, sinkFails)]
  /\ UNCHANGED <<users, nextId, now, issued, jar, started>>

\* deleteUser up to its await: logOperation, then the delete is sent
deleteUserLogged(r, sinkFails) ==
  [logOperation(r, r.user.email, sinkFails) EXCEPT !.pc = "deleteUser.delete"]

deleteUserLog(c) ==
  /\ req[c].pc = "deleteUser"
  /\ \E sinkFails \in BOOLEAN :
       req' = [req EXCEPT ![c] = deleteUserLogged(@, sinkFails)]
  /\ UNCHANGED <<users, nextId, now, issued, jar, started>>

\* deleteUser after prisma.user.delete answered
deleteUserDone(r, result) ==
  IF result.error # "none" THEN Caught(r, 400, result.error)
  ELSE Succeed([r EXCEPT !.committed = TRUE], 200, "User deleted!", {result.user})

\* A deleteUser that lets a caller delete only the record of its own id
deleteUserOwnOnly(c) ==
  /\ req[c].pc = "deleteUser.delete"
  /\ \E dbDown \in BOOLEAN :
       LET result == delete(users, req[c].id, dbDown) IN
         IF req[c].user.id # req[c].id
           THEN /\ users' = users
                /\ req' = [req EXCEPT ![c] = Fail(@, 403, "Forbidden")]
           ELSE /\ users' = result.store
                /\ req' = [req EXCEPT ![c] = deleteUserDone(@, result)]
  /\ UNCHANGED <<nextId, now, issued, jar, started>>

deleteUserDelete(c) ==
  /\ req[c].pc = "deleteUser.delete"
  /\ \E dbDown \in BOOLEAN :
       LET result == delete(users, req[c].id, dbDown) IN
         /\ users' = result.store
         /\ req' = [req EXCEPT ![c] = deleteUserDone(@, result)]
  /\ UNCHANGED <<nextId, now, issued, jar, started>>

\* An updateUser that signs fresh tokens for the updated record
updateUserReissues(r, result, sinkFails) ==
  IF result.error # "none" THEN Caught(r, 400, result.error)
  ELSE Succeed(logOperation([r EXCEPT !.committed = TRUE,
                                      !.setCookie = SetTokens(setTokens(result.user, now))],
                            r.user.email, sinkFails),
               200, "User updated!", {WithoutPassword(result.user)})

\* An updateUser that reports a failed audit record as its own failure
updateUserAuditFatal(r, result, sinkFails) ==
  IF result.error # "none" THEN Caught(r, 400, result.error)
  ELSE IF sinkFails
    THEN Fail(logOperation([r EXCEPT !.committed = TRUE], r.user.email, sinkFails),
              400, "audit failed")
  ELSE Succeed(logOperation([r EXCEPT !.committed = TRUE], r.user.email, sinkFails),
               200, "User updated!", {WithoutPassword(result.user)})

\* updateUser after prisma.user.update answered
updateUserDone(r, result, sinkFails) ==
  IF result.error # "none" THEN Caught(r, 400, result.error)
  ELSE Succeed(logOperation([r EXCEPT !.committed = TRUE], r.user.email, sinkFails),
               200, "User updated!", {WithoutPassword(result.user)})

updateUser(c) ==
  /\ req[c].pc = "updateUser"
  /\ \E dbDown, sinkFails \in BOOLEAN :
       LET result == update(users, req[c].id, req[c].dto, dbDown) IN
         /\ users' = result.store
         /\ req' = [req EXCEPT ![c] = updateUserDone(@, result, sinkFails)]
  /\ UNCHANGED <<nextId, now, issued, jar, started>>

\* A getProfile that records the view through logOperation
getProfileBroadcasts(r, user, dbDown) ==
  IF dbDown THEN Caught(r, 400, "P1001")
  ELSE IF user = NoUser THEN Fail(r, 400, "This user does not exist")
  ELSE Succeed(logOperation([r EXCEPT !.committed = TRUE], user.email, FALSE),
               200, "", {WithoutPassword(user)})

\* getProfile after findUnique answered
getProfileDone(r, user, dbDown) ==
  IF dbDown THEN Caught(r, 400, "P1001")
  ELSE IF user = NoUser THEN Fail(r, 400, "This user does not exist")
  ELSE Succeed(loggerInfo([r EXCEPT !.committed = TRUE], user.email),
               200, "", {WithoutPassword(user)})

getProfile(c) ==
  /\ req[c].pc = "getProfile"
  /\ \E dbDown \in BOOLEAN :
       req' = [req EXCEPT ![c] =
                 getProfileDone(@, findById(users, @.user.id), dbDown)]
  /\ UNCHANGED <<users, nextId, now, issued, jar, started>>

\* loginUser after findUnique({ where: { email } }) answered
loginUserFound(r, user, dbDown) ==
  IF dbDown THEN Caught(r, 400, "P1001")
  ELSE IF user = NoUser THEN Fail(r, 400, "User or password invalid")
  ELSE [r EXCEPT !.found = user, !.pc = "login.compare"]

loginFind(c) ==
  /\ req[c].pc = "login"
  /\ \E dbDown \in BOOLEAN :
       req' = [req EXCEPT ![c] =
                 loginUserFound(@, findByEmail(users, @.dto.email), dbDown)]
  /\ UNCHANGED <<users, nextId, now, issued, jar, started>>

\* loginUser after bcrypt.compare answered
loginUserDone(r, t, sinkFails) ==
  IF ~Compare(r.dto.password, r.found.password)
    THEN Fail(r, 400, "Incorrect password")
    ELSE Succeed(logOperation([r EXCEPT !.committed = TRUE,
                                        !.setCookie = SetTokens(setTokens(r.found, t))],
                              r.dto.email, sinkFails),
                 201, "Successful login!", {})

\* The access tokens a finished step wrote on its response
Minted(r) == IF r.setCookie.kind = "set" THEN {r.setCookie.access_token} ELSE {}

loginCompare(c) ==
  /\ req[c].pc = "login.compare"
  /\ \E sinkFails \in BOOLEAN :
       LET r == loginUserDone(req[c], now, sinkFails) IN
         /\ req' = [req EXCEPT ![c] = r]
         /\ issued' = issued \cup Minted(r)
  /\ UNCHANGED <<users, nextId, now, jar, started>>

\* registerUser up to the create: bcrypt.hash(password, 10)
registerUserHashed(r) ==
  [r EXCEPT !.hashed = Hash(r.dto.password), !.pc = "register.create"]

\* A registerUser whose catch does not single out the duplicate-key code
registerUserNoConflict(r, result, t, sinkFails) ==
  IF result.error # "none"
    THEN [Fail(r, 500, "Internal server error") EXCEPT !.error = result.error]
  ELSE Succeed(logOperation([r EXCEPT !.committed = TRUE,
                                      !.setCookie = SetTokens(setTokens(result.user, t))],
                            r.dto.email, sinkFails),
               201, "Successful register!", {IdentityOf(result.user)})

\* registerUser after prisma.user.create answered
registerUserDone(r, result, t, sinkFails) ==
  IF result.error = "P2002"
    THEN [Fail(r, 409, "The email is already registered") EXCEPT !.error = "P2002"]
  ELSE IF result.error # "none"
    THEN [Fail(r, 500, "Internal server error") EXCEPT !.error = result.error]
  ELSE Succeed(logOperation([r EXCEPT !.committed = TRUE,
                                      !.setCookie = SetTokens(setTokens(result.user, t))],
                            r.dto.email, sinkFails),
               201, "Successful register!", {IdentityOf(result.user)})

registerCreate(c) ==
  /\ req[c].pc = "register.create"
  /\ \E dbDown, sinkFails \in BOOLEAN :
       LET data == [req[c].dto EXCEPT !.password = req[c].hashed]
           result == create(users, nextId, data, dbDown)
           r == registerUserDone(req[c], result, now, sinkFails) IN
         /\ users' = result.store
         /\ nextId' = IF result.error = "none" THEN nextId + 1 ELSE nextId
         /\ req' = [req EXCEPT ![c] = r]
         /\ issued' = issued \cup Minted(r)
  /\ UNCHANGED <<now, jar, started>>

\* A logout that answers only a request carrying a session cookie
logoutNeedsCookie(r) ==
  IF r.cookie = NoToken
    THEN Fail(r, 401, "Access token not found")
    ELSE Succeed([r EXCEPT !.setCookie = SetCleared], 200, "Logout successful", {})

\* UsersController.logout: clearCookie twice, 200
logoutDone(r) ==
  Succeed([r EXCEPT !.setCookie = SetCleared], 200, "Logout successful", {})

logout(c) ==
  /\ req[c].pc = "logout"
  /\ req' = [req EXCEPT ![c] = logoutDone(@)]
  /\ UNCHANGED <<users, nextId, now, issued, jar, started>>

\* The client's cookie jar after the Set-Cookie headers of a response
Stored(cookies, setCookie) ==
  IF setCookie.kind = "set"
    THEN [access_token |-> setCookie.access_token,
          refresh_token |-> setCookie.refresh_token]
  ELSE IF setCookie.kind = "cleared" THEN NoCookies
  ELSE cookies

\* The response reaches the client
Respond(c) ==
  /\ req[c].pc = "done"
  /\ jar' = [jar EXCEPT ![c] = Stored(@, req[c].setCookie)]
  /\ req' = [req EXCEPT ![c] = Idle]
  /\ UNCHANGED <<users, nextId, now, issued, started>>

\* Time passes
Tick ==
  /\ now + TickMinutes <= MaxTime
  /\ now' = now + TickMinutes
  /\ UNCHANGED <<users, nextId, issued, jar, req, started>>

\* Registrations in flight, each of which may take an id
Registering == Cardinality({c \in Clients : req[c].op = "register" /\ req[c].pc # "done"})

ReceiveGuarded(c) ==
  \E op \in GuardedOps, cookie \in Presentable(c), id \in Ids, dto \in UpdateInputs :
    Receive(c, canActivate(Arrived(op, cookie,
                                   IF op \in {"updateUser", "deleteUser"} THEN id ELSE 0,
                                   IF op = "updateUser" THEN dto ELSE NoDto),
                           now))

ReceiveLogin(c) ==
  \E dto \in LoginInputs :
    Receive(c, Unguarded(Arrived("login", jar[c].access_token, 0, dto)))

ReceiveRegister(c) ==
  /\ nextId + Registering <= MaxUsers
  /\ \E dto \in RegisterInputs :
       Receive(c, registerUserHashed(
                    Unguarded(Arrived("register", jar[c].access_token, 0, dto))))

ReceiveLogout(c) ==
  \E cookie \in Presentable(c) :
    Receive(c, Unguarded(Arrived("logout", cookie, 0, NoDto)))

Step(c) ==
  \/ ReceiveGuarded(c)
  \/ ReceiveLogin(c)
  \/ ReceiveRegister(c)
  \/ ReceiveLogout(c)
  \/ listAllUsers(c)
  \/ deleteUserLog(c)
  \/ deleteUserDelete(c)
  \/ updateUser(c)
  \/ getProfile(c)
  \/ loginFind(c)
  \/ loginCompare(c)
  \/ registerCreate(c)
  \/ logout(c)
  \/ Respond(c)

\* Concurrent requests, within one minute
Next == \E c \in Clients : Step(c)

Spec == Init /\ [][Next]_vars

\* One client, with the clock running
NextClock == Step(1) \/ Tick

SpecClock == Init /\ [][NextClock]_vars

\* ================================================================ claims
Done(c) == req[c].pc = "done"
Success(c) == Done(c) /\ req[c].res.status < 300
Failed(c) == Done(c) /\ req[c].res.status >= 400
AuditedOps == {"login", "register", "getAllUsers", "updateUser", "deleteUser"}

\* C1: an audit event (log line plus broadcast) of a login, register, list,
\* update or delete exists only once that operation has committed against the
\* record store; none exists for an operation not yet committed or that fails.
C1_AuditOnlyAfterCommit ==
  \A c \in Clients :
    (req[c].op \in AuditedOps /\ req[c].broadcasts > 0) => req[c].committed

C4_DenialsIndistinguishable ==
  \A c, d \in Clients :
    (Done(c) /\ Done(d) /\ req[c].guard = "denied" /\ req[d].guard = "denied")
      => req[c].res = req[d].res

\* C5: a guarded handler runs only for a request whose access_token cookie the
\* guard verified in that request, with req.user the payload of that token; a
\* denied request enters no handler, commits nothing and records no audit event.
C5_HandlersBehindGuard ==
  \A c \in Clients :
    req[c].op \in GuardedOps =>
      /\ req[c].guard \in {"accepted", "denied"}
      /\ req[c].handler =>
           /\ req[c].guard = "accepted"
           /\ req[c].cookie \in issued
           /\ req[c].user = req[c].cookie.payload
      /\ req[c].guard = "denied" =>
           /\ Done(c) /\ ~req[c].handler /\ ~req[c].committed
           /\ req[c].res.status = 401
           /\ req[c].logLines = 0 /\ req[c].broadcasts = 0
           /\ req[c].user = NoUser

\* C5 witness: one request was let through to updateUser and has committed,
\* another was denied
C5_Witness ==
  /\ req[1].op = "updateUser" /\ req[1].handler /\ req[1].committed
  /\ req[2].op = "deleteUser" /\ req[2].guard = "denied"

\* A guarded request of client c is received in this step
ReceivedGuarded(c) ==
  req[c].pc = "idle" /\ req'[c].pc # "idle" /\ req'[c].op \in GuardedOps

\* C6: an access token issued at login or registration verifies to the
\* identity it was issued for at every instant before its expiry, 15 minutes
\* after issue; from its expiry on verification fails and the guard rejects
\* the request.
C6_TokenLifetime ==
  [][\A c \in Clients :
       (ReceivedGuarded(c) /\ req'[c].cookie \in issued) =>
         LET tok == req'[c].cookie.payload IN
           /\ now < tok.iat + AccessTTL =>
                /\ req'[c].guard = "accepted"
                /\ IdentityOf(req'[c].user) = IdentityOf(tok)
           /\ now >= tok.iat + AccessTTL =>
                /\ req'[c].guard = "denied"
                /\ req'[c].res.status = 401]_vars

\* C6 witness: a token the server signed is rejected, 15 minutes or more
\* after it was issued
C6_Witness ==
  \E c \in Clients :
    /\ req[c].guard = "denied" /\ req[c].cookie \in issued
    /\ now >= req[c].cookie.payload.iat + AccessTTL

\* The record the token was issued for is gone, or no longer reads as the
\* token does, or the token is in no client's cookie jar any more
Stale(tok) ==
  \/ findById(users, tok.payload.id) = NoUser
  \/ IdentityOf(findById(users, tok.payload.id)) # IdentityOf(tok.payload)
  \/ \A c \in Clients : jar[c].access_token # tok

\* C7: the guard never consults the record store: an unexpired access token
\* is accepted also after its user's record was deleted or changed, and after
\* logout; nothing is revoked server-side.
C7_GuardIgnoresStore ==
  [][\A c \in Clients :
       ( /\ ReceivedGuarded(c)
         /\ req'[c].cookie \in issued
         /\ now < req'[c].cookie.payload.exp
         /\ Stale(req'[c].cookie) )
       => (req'[c].guard = "accepted" /\ req'[c].user = req'[c].cookie.payload)]_vars

\* C7 witness: a request is past the guard with the token of a user whose
\* record is no longer in the store
C7_Witness ==
  \E c \in Clients :
    /\ req[c].op \in GuardedOps /\ req[c].guard = "accepted" /\ ~Done(c)
    /\ ~req[c].committed /\ req[c].logLines = 0
    /\ findById(users, req[c].user.id) = NoUser

\* The create of client c's registration is answered in this step
Created(c) == req[c].pc = "register.create" /\ req'[c].pc = "done"

\* C8: registerUser with an email already in the record store fails with 409
\* Conflict, in every interleaving (of two concurrent registrations of one new
\* email at most one succeeds); every other registration failure is a 500; a
\* failed registration creates no record, sets no cookie and records no audit
\* event.
C8_DuplicateEmailConflict ==
  [][\A c \in Clients :
       Created(c) =>
         LET dup == \E u \in users : u.email = req[c].dto.email
             r == req'[c] IN
           /\ (dup /\ r.error # "P1001") => r.res.status = 409
           /\ r.res.status = 409 => dup
           /\ (~dup /\ r.res.status >= 400) => r.res.status = 500
           /\ r.res.status >= 400 =>
                /\ users' = users /\ issued' = issued
                /\ r.setCookie = SetNone
                /\ r.logLines = 0 /\ r.broadcasts = 0
           /\ \A u, v \in users' : u.email = v.email => u = v]_vars

\* C8 witness: two registrations of the same email, one 201 and one 409
C8_Witness ==
  /\ Done(1) /\ Done(2)
  /\ req[1].op = "register" /\ req[2].op = "register"
  /\ req[1].dto.email = req[2].dto.email
  /\ req[1].res.status = 409 /\ req[2].res.status = 201
  /\ Cardinality(users) = 1

\* C9: a login with an unknown email or a wrong password fails with status
\* 401, sets no cookie and records no audit event.
C9_InvalidCredentials401 ==
  \A c \in Clients :
    (Done(c) /\ req[c].op = "login" /\ req[c].error = "none" /\ ~req[c].committed)
      => /\ req[c].res.status = 401
         /\ req[c].setCookie = SetNone
         /\ req[c].logLines = 0 /\ req[c].broadcasts = 0

\* C10: getProfile, updateUser and deleteUser of a user id that is not in the
\* record store fail with status 404 and leave the store unchanged.
C10_AbsentIdNotFound ==
  \A c \in Clients :
    ( /\ Done(c) /\ req[c].op \in {"getProfile", "updateUser", "deleteUser"}
      /\ (req[c].error = "P2025" \/ req[c].res.message = "This user does not exist") )
      => (req[c].res.status = 404 /\ ~req[c].committed)

\* C11: logout answers 200 and clears both cookies in every state, whatever
\* cookie the request carries and whatever the client's jar holds (so a second
\* logout leaves the jar as the first did); it changes no record of the store
\* and no issued token.
C11_LogoutAlwaysClears ==
  [][\A c \in Clients :
       /\ (req[c].pc = "logout" /\ req'[c] # req[c]) =>
            /\ req'[c].pc = "done"
            /\ req'[c].res.status = 200
            /\ req'[c].setCookie = SetCleared
            /\ users' = users /\ issued' = issued
       /\ (Done(c) /\ req[c].op = "logout" /\ req'[c] # req[c]) =>
            /\ jar'[c] = NoCookies
            /\ Stored(jar'[c], req[c].setCookie) = jar'[c]
            /\ users' = users]_vars

\* C11 witness: a logout has succeeded for a client whose jar holds no cookie,
\* while a user is registered and holds a session
C11_Witness ==
  \E c \in Clients :
    /\ Done(c) /\ req[c].op = "logout" /\ req[c].res.status = 200
    /\ jar[c] = NoCookies /\ req[c].cookie = NoToken
    /\ users # {} /\ issued # {}

\* The guarded operations whose audit message is built from req.email
ActorFromToken == {"getAllUsers", "updateUser", "deleteUser"}

\* C12 as stated: every line a guarded request writes to the audit trail
\* names the email of the token's identity, whatever the store holds now.
C12_ActorIsTokenIdentity ==
  \A c \in Clients :
    (req[c].op \in GuardedOps /\ req[c].logLines > 0)
      => req[c].actor = req[c].cookie.payload.email

\* C12, amended: updateUser changes no issued token, issues none and sets no
\* cookie; tokens are issued by login and registration only; the guard goes on
\* attaching the token's identity, and list, update and delete name that
\* identity's email as actor, while the log line of getProfile names the email
\* stored for the token's id at the time of the view.
C12_TokenOutlivesUpdate ==
  [][\A c \in Clients :
       (req'[c] # req[c]) =>
         /\ (req[c].pc = "updateUser") =>
              /\ issued' = issued /\ jar' = jar
              /\ req'[c].setCookie = SetNone
         /\ (issued' # issued) => req[c].pc \in {"login.compare", "register.create"}
         /\ (req'[c].op \in GuardedOps /\ req'[c].guard = "accepted") =>
              req'[c].user = req'[c].cookie.payload
         /\ (req'[c].op \in ActorFromToken /\ req'[c].logLines > 0) =>
              req'[c].actor = req'[c].cookie.payload.email
         /\ (req[c].pc = "getProfile" /\ req'[c].logLines > 0) =>
              req'[c].actor = findById(users, req[c].user.id).email]_vars

\* C12 witness: a list request made after the caller's email was changed is
\* audited under the email of the token, which the store no longer holds for
\* that id
C12_Witness ==
  \E c \in Clients :
    /\ Done(c) /\ req[c].op = "getAllUsers" /\ req[c].logLines = 1
    /\ findById(users, req[c].user.id) # NoUser
    /\ findById(users, req[c].user.id).email # req[c].user.email
    /\ req[c].actor = req[c].user.email

\* C13: no response carries a stored password hash: no user record in the body
\* of any response has a password field.
C13_NoPasswordInResponses ==
  \A c \in Clients :
    Done(c) => \A u \in req[c].res.body : "password" \notin DOMAIN u

\* C14: updateUser and deleteUser act on the record of the path id, whoever
\* the caller is: unless the store is unreachable, the store after the step and
\* the response are those of update(id, dto) / delete(id) alone, and the
\* caller's identity shows only as the actor of the audit event.
C14_NoOwnershipCheck ==
  [][\A c \in Clients :
       /\ (req[c].pc = "updateUser" /\ req'[c] # req[c] /\ req'[c].error # "P1001") =>
            LET result == update(users, req[c].id, req[c].dto, FALSE) IN
              /\ users' = result.store
              /\ req'[c].actor = IF result.error = "none" THEN req[c].user.email ELSE Null
              /\ req'[c].res =
                   IF result.error = "none"
                     THEN Response(200, "User updated!", {WithoutPassword(result.user)})
                     ELSE Response(400, result.error, {})
       /\ (req[c].pc = "deleteUser.delete" /\ req'[c] # req[c]
             /\ req'[c].error # "P1001") =>
            LET result == delete(users, req[c].id, FALSE) IN
              /\ users' = result.store
              /\ req'[c].actor = req[c].user.email
              /\ req'[c].res =
                   IF result.error = "none"
                     THEN Response(200, "User deleted!", {result.user})
                     ELSE Response(400, result.error, {})]_vars

\* C14 witness: a caller has deleted the record of another user
C14_Witness ==
  \E c \in Clients :
    /\ Done(c) /\ req[c].op = "deleteUser" /\ req[c].committed
    /\ req[c].user.id # req[c].id
    /\ findById(users, req[c].id) = NoUser
    /\ findById(users, req[c].user.id) # NoUser

====
